---- MODULE Spec2Model ----
(***************************************************************************)
(* A model of DeepFried: the streaming minibatch optimizers of optim.py    *)
(* and their construction, the batching generator and the generator        *)
(* resolution of util.py, and of layers.py the parameter registry of       *)
(* Layer, BatchNormalization and Dropout.                                  *)
(*                                                                         *)
(* Floating point values are modelled as fixed-point numbers; arrays are   *)
(* sequences.                                                              *)
(***************************************************************************)
EXTENDS Integers, Sequences, FiniteSets, TLC

(***************************************************************************)
(* Bounds of the model.                                                    *)
(***************************************************************************)
MaxN == 10
MaxB == 3
MaxParams == 2
MaxCalls == 2
NFeat == 1
MaxMini == 3
MaxPasses == 2
MaxUpdates == 4
MaxSeed == 1
MaxDraws == 2

(***************************************************************************)
(* floatX values: fixed-point numbers, the integer v standing for v/Scale. *)
(* Products and quotients are rounded down to the grid.                    *)
(***************************************************************************)
Scale == 1000

Fx(n) == n * Scale

Frac(n, d) == (n * Scale) \div d

FMul(x, y) == (x * y) \div Scale

FDiv(x, y) == (x * Scale) \div y

RECURSIVE FSumTo(_, _)
FSumTo(s, k) == IF k = 0 THEN 0 ELSE FSumTo(s, k - 1) + s[k]

FSum(s) == FSumTo(s, Len(s))

(***************************************************************************)
(* Python values.                                                          *)
(***************************************************************************)
\* An array built elementwise, as the tuple of its elements.
Array(f) == f \o <<>>

\* None, and an omitted optional argument: the empty tuple.
None == <<>>

Min(a, b) == IF a < b THEN a ELSE b

Max(a, b) == IF a > b THEN a ELSE b

\* A slice index of Python on a sequence of length n: a negative index
\* counts from the end, and indices are clipped to the length.
PyIndex(i, n) == IF i < 0 THEN Max(n + i, 0) ELSE Min(i, n)

\* x[lo:hi] on a sequence.
PySlice(x, lo, hi) == SubSeq(x, PyIndex(lo, Len(x)) + 1, PyIndex(hi, Len(x)))

\* x[lo:] on a sequence.
PySliceFrom(x, lo) == SubSeq(x, PyIndex(lo, Len(x)) + 1, Len(x))

(***************************************************************************)
(* util.py: batched.                                                       *)
(***************************************************************************)
\* batched with the last slice taken as x[-batchsize:] instead of x[-rest:].
batched_fullLastSlice(bs, X, t) ==
    LET n == Len(X)
        full == Array([i \in 1..(n \div bs) |->
                    <<PySlice(X, (i - 1) * bs, i * bs),
                      PySlice(t, (i - 1) * bs, i * bs)>>])
        rest == n % bs
    IN  IF rest # 0
        THEN Append(full, <<PySliceFrom(X, -bs), PySliceFrom(t, -bs)>>)
        ELSE full

\* The slices batched(batchsize, X, t) yields, in order; with two arrays
\* maybetuple makes each yielded item the pair <<slice of X, slice of t>>.
batched(bs, X, t) ==
    LET n == Len(X)
        full == Array([i \in 1..(n \div bs) |->
                    <<PySlice(X, (i - 1) * bs, i * bs),
                      PySlice(t, (i - 1) * bs, i * bs)>>])
        rest == n % bs
    IN  IF rest # 0
        THEN Append(full, <<PySliceFrom(X, -rest), PySliceFrom(t, -rest)>>)
        ELSE full

(***************************************************************************)
(* optim.py: the state of one optimizer, of the model it trains and of the *)
(* data set its caller holds.                                              *)
(***************************************************************************)
VARIABLES
    cls,        \* "StreaMiniSGD" or "StreaMiniMomentum"
    nesterov,   \* the nesterov flag of StreaMiniMomentum
    sh_momentum, \* the default of the momentum input, set at construction
    batchsize,  \* self.batchsize
    params,     \* the values of model.params, in list order
    sh_v,       \* the values of self.sh_v, in list order (<<>> for SGD)
    dataX,      \* the caller's data array X
    dataT,      \* the caller's target array t
    augment,    \* whether the caller passes an augmentation pipeline as aug
    call,       \* <<the arguments of the latest fit_epoch call>>, or None
    trace,      \* one record per fn_train invocation of the latest call
    result,     \* what the latest fit_epoch call returned, or None
    ncalls      \* fit_epoch calls so far

optvars == <<cls, nesterov, sh_momentum, batchsize, params, sh_v, dataX, dataT, augment,
             call, trace, result, ncalls>>

(***************************************************************************)
(* layers.py: the state of one layer, and of the caller that drives its    *)
(* hooks and builds its training expression.                               *)
(***************************************************************************)
VARIABLES
    kind,       \* the layer's class: "BatchNormalization" or "Layer"
    post,       \* self.post
    momentum,   \* self.momentum: MomentumOff for False, else <<the factor>>
    gamma,      \* the value of self.gamma, one entry per feature
    beta,       \* the value of self.beta
    sum_means,  \* the value of self.sum_means
    sum_vars,   \* the value of self.sum_vars
    pgamma,     \* the value of self.pgamma
    pbeta,      \* the value of self.pbeta
    nmini,      \* <<self.nmini>>, or None while the attribute does not exist
    hooks,      \* for each hook name, the method the instance binds to it
    kw,         \* the caller's context: update lists by key
    raised,     \* the exception the latest operation raised, or "" for none
    pass,       \* what happened since the latest _pre (history)
    phase       \* where the caller that drives the hooks stands

layervars == <<kind, post, momentum, gamma, beta, sum_means, sum_vars, pgamma,
               pbeta, nmini, hooks, kw, raised, pass, phase>>

(***************************************************************************)
(* layers.py: the parameter registry of one layer (Ws, bs, params, inits), *)
(* the random generators reinit draws from, the stochastic source of a     *)
(* Dropout layer, and optim.py: the construction of an optimizer.          *)
(***************************************************************************)
VARIABLES
    Ws,           \* self.Ws, in list order
    layer_bs,     \* self.bs of the layer, in list order
    layer_params, \* self.params of the layer, in list order
    inits,        \* self.inits: for each shared variable, by id, its initializer
    value,        \* the content of each shared variable made by newweight/newbias, by id
    np_random,    \* the state of the process-wide generator of numpy
    srng,         \* <<self.seed>> of a Dropout layer with its srng, or None
    ret,          \* <<what the latest newweight, newbias or train_expr call returned>>, or None
    constructed   \* the optimizer construction under way: arguments and calls made

regvars == <<Ws, layer_bs, layer_params, inits, value, np_random, srng, ret,
             constructed>>

vars == <<optvars, layervars, regvars>>

DefaultMomentum == Frac(9, 10)

\* The extra arguments a caller passes to fit_epoch: the learning rate and
\* the momentum, which is omitted (None) or overrides the default.
StepArgs == {[lrate |-> Frac(1, 10), momentum |-> None],
             [lrate |-> Frac(1, 4), momentum |-> <<0>>]}

\* The batchsize argument of fit_epoch: omitted (0), or an override.
BatchsizeArgs == {0, MaxB}

\* The data set of n samples: row j of X is the sample's number j, row j of
\* t is the pair <<j, label>> with the label (j + 1) % 2.
MakeX(n) == Array([j \in 1..n |-> j])

MakeT(n) == Array([j \in 1..n |-> <<j, (j + 1) % 2>>])

\* aug.augbatch_train(bx, bt): an augmentation transforms each sample of the
\* slice; here it negates it.
augbatch_train(bx, bt) == Array([j \in 1..Len(bx) |-> -bx[j]])

\* The cost collaborator and the model, which optim.py only sees through
\* self.cost_expr: the mean over the minibatch of sum_i (p_i - t_j)^2, plus
\* the coupling terms p_i * p_(i+1).
CostExpr(p, bx, bt) ==
    LET np == Len(p)
        sq(x) == FMul(x, x)
        sample(j) == FSum([i \in 1..np |-> sq(p[i] - Fx(bt[j][2]))])
        fit == FSum([j \in 1..Len(bt) |-> sample(j)]) \div Len(bt)
        couple == FSum([i \in 1..(np - 1) |-> FMul(p[i], p[i + 1])])
    IN  fit + couple

\* _T.grad(cost=self.cost_expr, wrt=self.model.params): one gradient per
\* parameter, in the order of model.params.
Grad(p, bx, bt) ==
    LET np == Len(p)
        dfit(i) == FSum([j \in 1..Len(bt) |-> 2 * (p[i] - Fx(bt[j][2]))])
                       \div Len(bt)
        left(i) == IF i > 1 THEN p[i - 1] ELSE 0
        right(i) == IF i < np THEN p[i + 1] ELSE 0
    IN  Array([i \in 1..np |-> dfit(i) + left(i) + right(i)])

\* SGDUpdates stepping along the gradient instead of against it.
SGDUpdates_ascent(p, g, lr) ==
    Array([i \in 1..Len(p) |-> p[i] + FMul(lr, g[i])])

\* The updates of StreaMiniSGD.fn_train: (p, p - lrate * gp) for each p.
SGDUpdates(p, g, lr) ==
    Array([i \in 1..Len(p) |-> p[i] - FMul(lr, g[i])])

\* The velocity expression of StreaMiniMomentum: momentum * sh_v - lrate * gp.
VelocityExpr(v, g, lr, mom) ==
    Array([i \in 1..Len(v) |-> FMul(mom, v[i]) - FMul(lr, g[i])])

\* MomentumUpdates adding the old velocity in classical momentum.
MomentumUpdates_oldVelocity(p, v, g, lr, mom, nest) ==
    LET vnew == VelocityExpr(v, g, lr, mom)
    IN  Array([i \in 1..Len(p) |->
            IF ~nest
            THEN p[i] + v[i]
            ELSE p[i] + FMul(mom, vnew[i]) - FMul(lr, g[i])])

\* MomentumUpdates without the explicit gradient term of the Nesterov step.
MomentumUpdates_noGradTerm(p, v, g, lr, mom, nest) ==
    LET vnew == VelocityExpr(v, g, lr, mom)
    IN  Array([i \in 1..Len(p) |->
            IF ~nest
            THEN p[i] + vnew[i]
            ELSE p[i] + FMul(mom, vnew[i])])

\* The parameter updates of StreaMiniMomentum, from the velocity expression.
MomentumUpdates(p, v, g, lr, mom, nest) ==
    LET vnew == VelocityExpr(v, g, lr, mom)
    IN  Array([i \in 1..Len(p) |->
            IF ~nest
            THEN p[i] + vnew[i]
            ELSE p[i] + FMul(mom, vnew[i]) - FMul(lr, g[i])])

\* One call of self.fn_train(bx, bt, lrate[, momentum]): the outputs and all
\* updates are computed from the values the shared variables hold before
\* the call. StreaMiniSGD has no velocities: its sh_v stays the empty list.
fn_train(c, nest, p, v, bx, bt, lr, mom) ==
    LET g == Grad(p, bx, bt)
    IN  [cost |-> CostExpr(p, bx, bt),
         params |-> IF c = "StreaMiniSGD"
                    THEN SGDUpdates(p, g, lr)
                    ELSE MomentumUpdates(p, v, g, lr, mom, nest),
         sh_v |-> IF c = "StreaMiniSGD" THEN <<>>
                  ELSE VelocityExpr(v, g, lr, mom)]

\* self.cost.aggregate_batches(costs): the cost collaborator's aggregate,
\* an uninterpreted function of the list.
aggregate_batches(costs) == <<"aggregate_batches", costs>>

\* CollectedCosts with each cost put in front of the list.
CollectedCosts_reversed(tr) ==
    Array([k \in 1..Len(tr) |-> tr[Len(tr) + 1 - k].cost])

\* The list costs of fit_epoch: the cost each invocation of fn_train
\* returned, appended in invocation order.
CollectedCosts(tr) == Array([k \in 1..Len(tr) |-> tr[k].cost])

\* The body of the loop of fit_epoch for one slice <<bx, bt>>, from the
\* state st = [params, sh_v, trace]: the slice is augmented when aug is
\* given and passed to fn_train.
FitBatch(st, batch, c, nest, aug, lr, mom) ==
    LET bx0 == batch[1]
        bt == batch[2]
        bx == IF aug THEN augbatch_train(bx0, bt) ELSE bx0
        out == fn_train(c, nest, st.params, st.sh_v, bx, bt, lr, mom)
        rec == [slice |-> batch, bx |-> bx, bt |-> bt, lr |-> lr, mom |-> mom,
                p0 |-> st.params, v0 |-> st.sh_v,
                cost |-> out.cost, p1 |-> out.params, v1 |-> out.sh_v]
    IN  [params |-> out.params, sh_v |-> out.sh_v,
         trace |-> Append(st.trace, rec)]

\* The loop of fit_epoch over the slices: the next slice is the one after
\* those already passed to fn_train, and each invocation of fn_train starts
\* from the values the previous one wrote.
RECURSIVE FitLoop(_, _, _, _, _, _, _)
FitLoop(batches, st, c, nest, aug, lr, mom) ==
    IF Len(st.trace) >= Len(batches) THEN st
    ELSE FitLoop(batches,
                 FitBatch(st, batches[Len(st.trace) + 1], c, nest, aug, lr, mom),
                 c, nest, aug, lr, mom)

\* The batch size fit_epoch uses: batchsize or self.batchsize, where the
\* argument 0 stands for both of Python's false values None and 0.
EffectiveBatchsize(override) ==
    IF override = 0 THEN batchsize ELSE override

\* The momentum input of fn_train: the value given to fit_epoch, else the
\* default given at construction (_th.Param(self.sh_momentum, momentum)).
EffectiveMomentum(override) ==
    IF override = None THEN sh_momentum ELSE override[1]

\* fit_epoch(X, t, aug, batchsize, lrate[, momentum]); StreaMiniSGD.fn_train
\* has no momentum input.
fit_epoch(X, t, aug, bsarg, lr, momarg) ==
    LET bs == EffectiveBatchsize(bsarg)
        mom == IF cls = "StreaMiniSGD" THEN None ELSE EffectiveMomentum(momarg)
        start == [params |-> params, sh_v |-> sh_v, trace |-> <<>>]
    IN  \E fin \in {FitLoop(batched(bs, X, t), start, cls, nesterov, aug, lr, mom)} :
            /\ params' = fin.params
            /\ sh_v' = fin.sh_v
            /\ trace' = fin.trace
            /\ call' = <<[bs |-> bs, lr |-> lr, momentum |-> momarg]>>
            /\ result' = <<aggregate_batches(CollectedCosts(fin.trace)), None>>

\* numpy.random.RandomState(seed): a generator that has made n draws.
RandomState(seed) == [seed |-> seed, n |-> 0]

\* An entry of Ws, bs or params that is a shared variable made by _newparam;
\* id numbers the shared variables of the layer in creation order.
SharedVar(id) == [tag |-> "shared", id |-> id]

\* The initializer _newparam registers for a real scalar val: fill with val.
FillWith(val) == [rule |-> "fill", arg |-> val]

\* Layer.__init__: empty lists, no initializers.
EmptyRegistry ==
    /\ Ws = <<>> /\ layer_bs = <<>>
    /\ layer_params = <<>>
    /\ inits = <<>>
    /\ value = <<>>

\* No generator has been used, no Dropout source exists, no registry call
\* and no optimizer construction has been made.
Untouched ==
    /\ np_random = RandomState(0)
    /\ srng = None
    /\ ret = None
    /\ constructed = None

\* The optimizer runs are studied without a layer object of their own: the
\* model it trains is the parameter list params.
NoLayer ==
    /\ kind = "none"
    /\ post = FALSE
    /\ momentum = None
    /\ gamma = <<>> /\ beta = <<>>
    /\ sum_means = <<>> /\ sum_vars = <<>>
    /\ pgamma = <<>> /\ pbeta = <<>>
    /\ nmini = None
    /\ hooks = <<>>
    /\ kw = <<>>
    /\ raised = ""
    /\ pass = None
    /\ phase = "none"
    /\ EmptyRegistry
    /\ Untouched

\* StreaMiniSGD(batchsize, model, cost) or StreaMiniMomentum(batchsize, model,
\* cost, momentum, nesterov) over a model of 1..MaxParams parameters, the
\* i-th of which holds the value i, and a data set of 0..MaxN samples.
OptInit ==
    /\ cls \in {"StreaMiniSGD", "StreaMiniMomentum"}
    /\ nesterov \in IF cls = "StreaMiniSGD" THEN {FALSE} ELSE BOOLEAN
    /\ sh_momentum = IF cls = "StreaMiniSGD" THEN None ELSE DefaultMomentum
    /\ batchsize \in 1..MaxB
    /\ \E np \in 1..MaxParams : params = Array([i \in 1..np |-> Fx(i)])
    /\ sh_v = IF cls = "StreaMiniSGD" THEN <<>>
              ELSE Array([i \in 1..Len(params) |-> 0])
    /\ \E n \in 0..MaxN : dataX = MakeX(n) /\ dataT = MakeT(n)
    /\ augment \in BOOLEAN
    /\ call = None
    /\ trace = <<>>
    /\ result = None
    /\ ncalls = 0
    /\ NoLayer

FitEpoch ==
    /\ ncalls < MaxCalls
    /\ \E bsarg \in BatchsizeArgs, args \in StepArgs :
            fit_epoch(dataX, dataT, augment, bsarg, args.lrate, args.momentum)
    /\ ncalls' = ncalls + 1
    /\ UNCHANGED <<cls, nesterov, sh_momentum, batchsize, dataX, dataT, augment>>
    /\ UNCHANGED <<layervars, regvars>>

OptNext == FitEpoch

SpecOpt == OptInit /\ [][OptNext]_vars

(***************************************************************************)
(* layers.py: Layer and BatchNormalization.                                *)
(***************************************************************************)
\* self.momentum is False.
MomentumOff == <<>>

\* The momentum arguments of the constructor: False, True and a factor.
MomentumArgs == {"False", "True", "0.5"}

\* self.momentum after the constructor: True becomes 0.1.
InitMomentum(arg) ==
    CASE arg = "False" -> MomentumOff
      [] arg = "True" -> <<Frac(1, 10)>>
      [] OTHER -> <<Frac(1, 2)>>

\* The eps argument of the constructor.
Eps == Frac(1, 100)

\* A NaN entry of an array.
NaN == -999999999

\* An array of the layer's shape filled with one value.
Full(v) == Array([i \in 1..NFeat |-> v])

\* numpy.sqrt on the fixed-point grid, rounded down.
RECURSIVE ISqrtIn(_, _, _)
ISqrtIn(y, lo, hi) ==
    IF lo >= hi THEN lo
    ELSE LET mid == (lo + hi + 1) \div 2
         IN  IF mid * mid <= y THEN ISqrtIn(y, mid, hi)
             ELSE ISqrtIn(y, lo, mid - 1)

FSqrt(x) == ISqrtIn(x * Scale, 0, x + Scale)

\* The names of the eight hooks of a layer.
HookNames == {"pre_epoch", "pre_minibatch", "post_minibatch", "post_epoch",
              "pre_finalize", "finalize_pre_minibatch",
              "finalize_post_minibatch", "post_finalize"}

\* The methods of class Layer behind the hook names: each body is pass.
ClassHooks == [h \in HookNames |-> "pass"]

\* BatchNormalization.__init__ with the test on self.post inverted.
BNHooks_swappedModes(p) ==
    IF ~p
    THEN [h \in HookNames |->
            CASE h = "pre_finalize" -> "_pre"
              [] h = "post_finalize" -> "_post"
              [] h = "finalize_pre_minibatch" -> "_pre_mini"
              [] OTHER -> ClassHooks[h]]
    ELSE [h \in HookNames |->
            CASE h = "pre_epoch" -> "_pre"
              [] h = "post_epoch" -> "_post"
              [] h = "pre_minibatch" -> "_pre_mini"
              [] OTHER -> ClassHooks[h]]

\* The instance attributes BatchNormalization.__init__ assigns over the
\* class's hooks, by mode.
BNHooks(p) ==
    IF p
    THEN [h \in HookNames |->
            CASE h = "pre_finalize" -> "_pre"
              [] h = "post_finalize" -> "_post"
              [] h = "finalize_pre_minibatch" -> "_pre_mini"
              [] OTHER -> ClassHooks[h]]
    ELSE [h \in HookNames |->
            CASE h = "pre_epoch" -> "_pre"
              [] h = "post_epoch" -> "_post"
              [] h = "pre_minibatch" -> "_pre_mini"
              [] OTHER -> ClassHooks[h]]

\* The minibatches a caller feeds: the values of the samples; feature i of
\* a sample of value x is i * x.
Minibatches == {<<1, 1>>, <<1, 3>>, <<3, 3>>}

Feature(X, i) == Array([j \in 1..Len(X) |-> Fx(i * X[j])])

\* mean = T.mean(X, axis=0).
BatchMean(X) == Array([i \in 1..NFeat |-> FSum(Feature(X, i)) \div Len(X)])

\* var = T.mean((X - mean)**2, axis=0).
BatchVar(X) ==
    LET mean == BatchMean(X)
        sq(i) == Array([j \in 1..Len(X) |->
                    FMul(Feature(X, i)[j] - mean[i], Feature(X, i)[j] - mean[i])])
    IN  Array([i \in 1..NFeat |-> FSum(sq(i)) \div Len(X)])

\* An update some other layer has put on a list of the context.
OtherUpdate == [shared |-> "other", rule |-> "other", momentum |-> None]

\* The two updates train_expr builds, with the blend weights exchanged.
BNUpdates_swappedWeights(mom) ==
    IF mom = MomentumOff
    THEN << [shared |-> "sum_means", rule |-> "add", momentum |-> None],
            [shared |-> "sum_vars", rule |-> "add", momentum |-> None] >>
    ELSE << [shared |-> "sum_means", rule |-> "blend",
             momentum |-> <<Fx(1) - mom[1]>>],
            [shared |-> "sum_vars", rule |-> "blend",
             momentum |-> <<Fx(1) - mom[1]>>] >>

\* The two updates train_expr builds: (sum_means, ...) then (sum_vars, ...).
BNUpdates(mom) ==
    IF mom = MomentumOff
    THEN << [shared |-> "sum_means", rule |-> "add", momentum |-> None],
            [shared |-> "sum_vars", rule |-> "add", momentum |-> None] >>
    ELSE << [shared |-> "sum_means", rule |-> "blend", momentum |-> mom],
            [shared |-> "sum_vars", rule |-> "blend", momentum |-> mom] >>

\* The value an update expression of BNUpdates takes: old + stat, or
\* (1 - momentum) * old + momentum * stat.
UpdateValue(u, old, stat) ==
    IF u.rule = "add"
    THEN Array([i \in 1..NFeat |-> old[i] + stat[i]])
    ELSE Array([i \in 1..NFeat |->
            FMul(Fx(1) - u.momentum[1], old[i]) + FMul(u.momentum[1], stat[i])])

\* _pre without the reset of the counter.
BN_pre_keepsCounter ==
    /\ nmini' = IF nmini = None THEN <<0>> ELSE nmini
    /\ IF momentum = MomentumOff
       THEN sum_means' = Full(0) /\ sum_vars' = Full(0)
       ELSE UNCHANGED <<sum_means, sum_vars>>
    /\ raised' = ""
    /\ pass' = [index |-> pass.index + 1, minis |-> 0, stats |-> <<>>, ok |-> TRUE,
                updates |-> pass.updates]
    /\ UNCHANGED <<gamma, beta, pgamma, pbeta>>

\* BatchNormalization._pre.
BN_pre ==
    /\ nmini' = <<0>>
    /\ IF momentum = MomentumOff
       THEN sum_means' = Full(0) /\ sum_vars' = Full(0)
       ELSE UNCHANGED <<sum_means, sum_vars>>
    /\ raised' = ""
    /\ pass' = [index |-> pass.index + 1, minis |-> 0, stats |-> <<>>, ok |-> TRUE,
                updates |-> pass.updates]
    /\ UNCHANGED <<gamma, beta, pgamma, pbeta>>

\* _pre_mini that takes a missing counter for 0.
BN_pre_mini_createsCounter ==
    /\ nmini' = IF nmini = None THEN <<1>> ELSE <<nmini[1] + 1>>
    /\ raised' = ""
    /\ pass' = [pass EXCEPT !.minis = @ + 1,
                            !.ok = @ /\ pass.minis = Len(pass.stats)]
    /\ UNCHANGED <<gamma, beta, sum_means, sum_vars, pgamma, pbeta>>

\* BatchNormalization._pre_mini: self.nmini += 1 needs the attribute.
BN_pre_mini ==
    IF nmini = None
    THEN /\ raised' = "AttributeError"
         /\ UNCHANGED <<nmini, pass, gamma, beta, sum_means, sum_vars, pgamma, pbeta>>
    ELSE /\ nmini' = <<nmini[1] + 1>>
         /\ raised' = ""
         /\ pass' = [pass EXCEPT !.minis = @ + 1,
                                 !.ok = @ /\ pass.minis = Len(pass.stats)]
         /\ UNCHANGED <<gamma, beta, sum_means, sum_vars, pgamma, pbeta>>

\* _post with the variance divided by nmini instead of nmini - 1.
PostValues_varByCount(mom, k, sm, sv, g, b) ==
    LET divide == mom = MomentumOff /\ k[1] > 1
        mean == IF divide THEN Array([i \in 1..NFeat |-> sm[i] \div k[1]]) ELSE sm
        var == IF divide THEN Array([i \in 1..NFeat |-> sv[i] \div k[1]])
               ELSE sv
        std == Array([i \in 1..NFeat |-> FSqrt(var[i] + Eps)])
        pg == Array([i \in 1..NFeat |-> FDiv(g[i], std[i])])
    IN  [pgamma |-> pg,
         pbeta |-> Array([i \in 1..NFeat |-> b[i] - FMul(pg[i], mean[i])])]

\* The values _post computes from copies of the accumulators: the division
\* by the count happens only if momentum is False and nmini > 1.
PostValues(mom, k, sm, sv, g, b) ==
    LET divide == mom = MomentumOff /\ k[1] > 1
        mean == IF divide THEN Array([i \in 1..NFeat |-> sm[i] \div k[1]]) ELSE sm
        var == IF divide THEN Array([i \in 1..NFeat |-> sv[i] \div (k[1] - 1)])
               ELSE sv
        std == Array([i \in 1..NFeat |-> FSqrt(var[i] + Eps)])
        pg == Array([i \in 1..NFeat |-> FDiv(g[i], std[i])])
    IN  [pgamma |-> pg,
         pbeta |-> Array([i \in 1..NFeat |-> b[i] - FMul(pg[i], mean[i])])]

\* _post dividing the accumulators themselves instead of copies.
BN_post_inPlace ==
    IF momentum = MomentumOff /\ nmini = None
    THEN /\ raised' = "AttributeError"
         /\ UNCHANGED <<pgamma, pbeta>>
         /\ UNCHANGED <<nmini, pass, gamma, beta, sum_means, sum_vars>>
    ELSE /\ \E v \in {PostValues(momentum, nmini, sum_means, sum_vars, gamma, beta)} :
                pgamma' = v.pgamma /\ pbeta' = v.pbeta
         /\ IF momentum = MomentumOff /\ nmini[1] > 1
            THEN /\ sum_means' = Array([i \in 1..NFeat |-> sum_means[i] \div nmini[1]])
                 /\ sum_vars' = Array([i \in 1..NFeat |->
                                    sum_vars[i] \div (nmini[1] - 1)])
            ELSE UNCHANGED <<sum_means, sum_vars>>
         /\ raised' = ""
         /\ UNCHANGED <<nmini, pass, gamma, beta>>

\* BatchNormalization._post: with momentum False the test reads self.nmini,
\* which does not exist before the first _pre.
BN_post ==
    IF momentum = MomentumOff /\ nmini = None
    THEN /\ raised' = "AttributeError"
         /\ UNCHANGED <<pgamma, pbeta>>
         /\ UNCHANGED <<nmini, pass, gamma, beta, sum_means, sum_vars>>
    ELSE /\ UNCHANGED <<nmini, pass, gamma, beta, sum_means, sum_vars>>
         /\ raised' = ""
         /\ \E v \in {PostValues(momentum, nmini, sum_means, sum_vars, gamma, beta)} :
                pgamma' = v.pgamma /\ pbeta' = v.pbeta

\* A call of the hook named h on the layer: Python finds the instance
\* attribute BatchNormalization.__init__ assigned, else the method of Layer.
Hook(h) ==
    /\ kind \in {"BatchNormalization", "Layer"}
    /\ hooks[h] = "_pre" => pass.index < MaxPasses
    /\ hooks[h] = "_pre_mini" /\ nmini # None => nmini[1] < MaxMini
    /\ CASE hooks[h] = "_pre" -> BN_pre
         [] hooks[h] = "_pre_mini" -> BN_pre_mini
         [] hooks[h] = "_post" -> BN_post
         [] OTHER -> /\ raised' = ""
                     /\ UNCHANGED <<nmini, pass, gamma, beta, sum_means,
                                    sum_vars, pgamma, pbeta>>
    /\ UNCHANGED <<kind, post, momentum, hooks, kw>>
    /\ UNCHANGED <<optvars, regvars>>

\* One run on the minibatch X of the function the caller compiled with the
\* updates train_expr appended: every update is computed from the old values.
ForwardUpdates(X) ==
    /\ kind = "BatchNormalization"
    /\ pass.updates < MaxMini
    /\ LET u == BNUpdates(momentum)
           mean == BatchMean(X)
           var == BatchVar(X)
       IN  /\ sum_means' = UpdateValue(u[1], sum_means, mean)
           /\ sum_vars' = UpdateValue(u[2], sum_vars, var)
           /\ pass' = [pass EXCEPT !.stats = Append(@, <<mean, var>>),
                                   !.ok = @ /\ pass.minis = Len(pass.stats) + 1,
                                   !.updates = @ + 1]
    /\ raised' = ""
    /\ UNCHANGED <<kind, post, momentum, hooks, kw, nmini, gamma, beta, pgamma, pbeta>>
    /\ UNCHANGED <<optvars, regvars>>

\* The values an optimizer's training steps give the trainable parameters.
TrainedGamma == Fx(2)

TrainedBeta == Fx(1)

\* The optimizer's update of the layer's entries of model.params.
UpdateParams ==
    /\ kind = "BatchNormalization"
    /\ gamma' = Full(TrainedGamma)
    /\ beta' = Full(TrainedBeta)
    /\ raised' = ""
    /\ UNCHANGED <<kind, post, momentum, hooks, kw, nmini, pass, sum_means,
                   sum_vars, pgamma, pbeta>>
    /\ UNCHANGED <<optvars, regvars>>

\* The rng arguments of reinit.
RngArgs == {"None", "int", "RandomState", "str"}

\* check_random_state accepts None, an integer and a RandomState.
check_random_state(seed) == seed \in {"None", "int", "RandomState"}

\* reinit without BatchNormalization's own part: the accumulators stay.
Reinit_keepsAccumulators(rng) ==
    /\ kind \in {"BatchNormalization", "Layer"}
    /\ IF ~check_random_state(rng)
       THEN /\ raised' = "ValueError"
            /\ UNCHANGED <<gamma, beta, pass>>
       ELSE IF kind = "BatchNormalization"
       THEN /\ raised' = ""
            /\ gamma' = Full(Fx(1))
            /\ beta' = Full(0)
            /\ pass' = [pass EXCEPT !.ok = FALSE]
       ELSE /\ raised' = ""
            /\ UNCHANGED <<gamma, beta, pass>>
    /\ UNCHANGED <<kind, post, momentum, hooks, kw, nmini, pgamma, pbeta,
                   sum_means, sum_vars>>
    /\ UNCHANGED <<optvars, regvars>>

\* reinit that also puts the cached values back to NaN.
Reinit_resetsCache(rng) ==
    /\ kind \in {"BatchNormalization", "Layer"}
    /\ IF ~check_random_state(rng)
       THEN /\ raised' = "ValueError"
            /\ UNCHANGED <<gamma, beta, sum_means, sum_vars, pass, pgamma, pbeta>>
       ELSE IF kind = "BatchNormalization"
       THEN /\ raised' = ""
            /\ gamma' = Full(Fx(1))
            /\ beta' = Full(0)
            /\ sum_means' = Full(0)
            /\ sum_vars' = Full(0)
            /\ pgamma' = Full(NaN)
            /\ pbeta' = Full(NaN)
            /\ pass' = [pass EXCEPT !.ok = FALSE]
       ELSE /\ raised' = ""
            /\ UNCHANGED <<gamma, beta, sum_means, sum_vars, pass, pgamma, pbeta>>
    /\ UNCHANGED <<kind, post, momentum, hooks, kw, nmini>>
    /\ UNCHANGED <<optvars, regvars>>

\* reinit(rng): Layer.reinit sets every parameter to its initializer's value
\* (gamma to 1, beta to 0); BatchNormalization.reinit then zeroes the
\* accumulators.  A Layer without parameters only checks rng.
Reinit(rng) ==
    /\ kind \in {"BatchNormalization", "Layer"}
    /\ IF ~check_random_state(rng)
       THEN /\ raised' = "ValueError"
            /\ UNCHANGED <<gamma, beta, sum_means, sum_vars, pass>>
       ELSE IF kind = "BatchNormalization"
       THEN /\ raised' = ""
            /\ gamma' = Full(Fx(1))
            /\ beta' = Full(0)
            /\ sum_means' = Full(0)
            /\ sum_vars' = Full(0)
            /\ pass' = [pass EXCEPT !.ok = FALSE]
       ELSE /\ raised' = ""
            /\ UNCHANGED <<gamma, beta, sum_means, sum_vars, pass>>
    /\ UNCHANGED <<kind, post, momentum, hooks, kw, nmini, pgamma, pbeta>>
    /\ UNCHANGED <<optvars, regvars>>

\* BatchNormalization.pred_expr on one sample x: X * pgamma + pbeta per
\* feature; a NaN factor gives NaN.
pred_expr(x) ==
    Array([i \in 1..NFeat |->
        IF pgamma[i] = NaN \/ pbeta[i] = NaN THEN NaN
        ELSE FMul(Fx(i * x), pgamma[i]) + pbeta[i]])

\* The layer studied on its own: no optimizer object.
NoOptimizer ==
    /\ cls = "none"
    /\ nesterov = FALSE
    /\ sh_momentum = None
    /\ batchsize = 0
    /\ params = <<>> /\ sh_v = <<>>
    /\ dataX = <<>> /\ dataT = <<>>
    /\ augment = FALSE
    /\ call = None /\ trace = <<>> /\ result = None
    /\ ncalls = 0

\* BatchNormalization(nfeat, post, momentum, eps), or a layer of a class
\* that keeps the hooks of Layer.  BatchNormalization makes gamma and beta
\* with _newparam(val=1) and _newparam(val=0): shared variables 1 and 2 of
\* its params, whose contents are the variables gamma and beta.
LayerInit ==
    /\ kind \in {"BatchNormalization", "Layer"}
    /\ IF kind = "BatchNormalization"
       THEN /\ post \in BOOLEAN
            /\ \E arg \in MomentumArgs : momentum = InitMomentum(arg)
            /\ hooks = BNHooks(post)
            /\ gamma = Full(Fx(1))
            /\ beta = Full(0)
            /\ sum_means = Full(0)
            /\ sum_vars = Full(0)
            /\ pgamma = Full(NaN)
            /\ pbeta = Full(NaN)
            /\ Ws = <<>> /\ layer_bs = <<>>
            /\ layer_params = <<SharedVar(1), SharedVar(2)>>
            /\ inits = <<FillWith(Fx(1)), FillWith(0)>>
            /\ value = <<>>
       ELSE /\ post = FALSE
            /\ momentum = None
            /\ hooks = ClassHooks
            /\ gamma = <<>> /\ beta = <<>>
            /\ sum_means = <<>> /\ sum_vars = <<>>
            /\ pgamma = <<>> /\ pbeta = <<>>
            /\ EmptyRegistry
    /\ nmini = None
    /\ kw = <<>>
    /\ raised = ""
    /\ pass = [index |-> 0, minis |-> 0, stats |-> <<>>, ok |-> FALSE, updates |-> 0]
    /\ phase = "idle"
    /\ Untouched
    /\ NoOptimizer

\* A caller that calls the hooks and operations of the layer in any order,
\* always with the same minibatch.
AnyOrderMinibatches == {<<1, 3>>}

CallHook == (\E h \in HookNames : Hook(h)) /\ UNCHANGED phase

RunUpdates == (\E X \in AnyOrderMinibatches : ForwardUpdates(X)) /\ UNCHANGED phase

TrainParams == UpdateParams /\ UNCHANGED phase

CallReinit == (\E rng \in RngArgs : Reinit(rng)) /\ UNCHANGED phase

Next == CallHook \/ RunUpdates \/ TrainParams \/ CallReinit

Spec == LayerInit /\ [][Next]_vars

\* A caller that runs passes over a BatchNormalization layer: the hook bound
\* to _pre, then for each minibatch the hook bound to _pre_mini and one run
\* of the compiled function, then the hook bound to _post; the parameters
\* are trained between passes.
BeginPass ==
    /\ phase = "idle"
    /\ \E h \in HookNames : hooks[h] = "_pre" /\ Hook(h)
    /\ phase' = "pass"

BeginMinibatch ==
    /\ phase = "pass"
    /\ \E h \in HookNames : hooks[h] = "_pre_mini" /\ Hook(h)
    /\ phase' = "minibatch"

Minibatch ==
    /\ phase = "minibatch"
    /\ \E X \in Minibatches : ForwardUpdates(X)
    /\ phase' = "pass"

EndPass ==
    /\ phase = "pass"
    /\ \E h \in HookNames : hooks[h] = "_post" /\ Hook(h)
    /\ phase' = "idle"

TrainBetweenPasses ==
    /\ phase = "idle"
    /\ gamma # Full(TrainedGamma)
    /\ UpdateParams
    /\ UNCHANGED phase

PassInit == LayerInit /\ kind = "BatchNormalization"

PassNext == BeginPass \/ BeginMinibatch \/ Minibatch \/ EndPass \/ TrainBetweenPasses

SpecPass == PassInit /\ [][PassNext]_vars

\* The two keys of the context a BatchNormalization layer looks at.
UpdateKeys == {"fwd_updates", "fin_updates"}

\* train_expr(X, **kw) looking for the key of the other mode.
train_expr_otherKey(ctx, optimized) ==
    LET key == IF post THEN "fwd_updates" ELSE "fin_updates"
    IN  IF key \notin DOMAIN ctx
        THEN [raised |-> IF optimized THEN "KeyError" ELSE "AssertionError",
              kw |-> ctx]
        ELSE [raised |-> "",
              kw |-> [ctx EXCEPT ![key] = @ \o BNUpdates(momentum)]]

\* BatchNormalization.train_expr(X, **kw): the exception it raises and the
\* context it leaves; the lists of the context are the caller's own.  The
\* assert stops a call without the key; where Python runs with asserts
\* stripped (-O), kw[key] stops it.
train_expr(ctx, optimized) ==
    LET key == IF post THEN "fin_updates" ELSE "fwd_updates"
    IN  IF key \notin DOMAIN ctx
        THEN [raised |-> IF optimized THEN "KeyError" ELSE "AssertionError",
              kw |-> ctx]
        ELSE [raised |-> "",
              kw |-> [ctx EXCEPT ![key] = @ \o BNUpdates(momentum)]]

\* The caller makes a new context: any of the two keys, each with a list
\* that is empty or already holds an update of another layer.
MakeContext ==
    /\ \E keys \in SUBSET UpdateKeys :
       \E ctx \in [keys -> {<<>>, <<OtherUpdate>>}] : kw' = ctx
    /\ raised' = ""
    /\ UNCHANGED <<kind, post, momentum, gamma, beta, sum_means, sum_vars, pgamma,
                   pbeta, nmini, hooks, pass, phase>>
    /\ UNCHANGED <<optvars, regvars>>

\* The caller builds the layer's training expression with its context;
\* Layer.train_expr itself is not implemented.
TrainExpr ==
    /\ kind \in {"BatchNormalization", "Layer"}
    /\ \A k \in DOMAIN kw : Len(kw[k]) + 2 <= MaxUpdates
    /\ IF kind = "Layer"
       THEN raised' = "NotImplementedError" /\ UNCHANGED kw
       ELSE \E optimized \in BOOLEAN :
            \E r \in {train_expr(kw, optimized)} : raised' = r.raised /\ kw' = r.kw
    /\ UNCHANGED <<kind, post, momentum, gamma, beta, sum_means, sum_vars, pgamma,
                   pbeta, nmini, hooks, pass, phase>>
    /\ UNCHANGED <<optvars, regvars>>

BuildNext == MakeContext \/ TrainExpr

SpecBuild == LayerInit /\ [][BuildNext]_vars

(***************************************************************************)
(* layers.py: newweight, newbias, _newparam and Layer.reinit over the      *)
(* parameter registry; util.py: check_random_state.                        *)
(***************************************************************************)

\* The integer seeds callers pass.
Seeds == 0..MaxSeed

\* What the next draw of a generator returns (rng.uniform, standard_normal,
\* randint): a function of its seed and of the draws made so far.
Draw(g) == Fx(((g.seed * 3 + g.n * 2 + 1) % 5) - 2)

Advance(g) == [g EXCEPT !.n = @ + 1]

\* check_random_state whose integer branch returns the process-wide
\* generator instead of a new one.
Resolved_intUsesGlobal(rng, s) ==
    CASE rng = "None" -> {np_random}
      [] rng = "int" -> {np_random}
      [] rng = "RandomState" -> {[seed |-> s, n |-> k] : k \in 0..MaxDraws}
      [] OTHER -> {}

\* The generator check_random_state returns: the singleton of numpy.random
\* for None, a new RandomState(s) for the integer s, the instance itself for
\* a RandomState (an instance of seed s that its owner has used any number
\* of times); nothing for another value.
Resolved(rng, s) ==
    CASE rng = "None" -> {np_random}
      [] rng = "int" -> {RandomState(s)}
      [] rng = "RandomState" -> {[seed |-> s, n |-> k] : k \in 0..MaxDraws}
      [] OTHER -> {}

\* The initializers: the three _newparam registers, the one an activation
\* layer's weightinitializer returns (a number times a draw of rng), and
\* the mark of a shared variable that is not a key of self.inits.
NaNFill == [rule |-> "nan", arg |-> NaN]

ReturnArray(val) == [rule |-> "array", arg |-> val]

RandomInit == [rule |-> "random", arg |-> Fx(1)]

Unbound == [rule |-> "unbound", arg |-> 0]

\* init(shape, rng, **kw): the content returned and the generator afterwards.
\* Only the initializer of weightinitializer reads rng.
CallInit(init, g) ==
    IF init.rule = "random"
    THEN [val |-> FMul(init.arg, Draw(g)), g |-> Advance(g)]
    ELSE [val |-> init.arg, g |-> g]

\* The val arguments of newweight/newbias by type: absent, a numpy array, a
\* real number, a symbolic tensor owned by someone else, anything else.
ValArgs ==
    {[type |-> "None", content |-> 0],
     [type |-> "ndarray", content |-> Fx(3)],
     [type |-> "Real", content |-> Fx(1)],
     [type |-> "TensorVariable", content |-> 0],
     [type |-> "str", content |-> 0]}

\* val = None, the default.
AbsentVal == [type |-> "None", content |-> 0]

\* The init arguments: absent, or a function such as the one weightinitializer
\* returns.
InitArgs == {"None", "function"}

\* The pair (val, None) that _newparam returns for a TensorVariable.
PairWithNone == [tag |-> "pair", id |-> 0]

\* _newparam(name, shape, val, init): what it raises, whether it makes a
\* shared variable and with which initializer, and what it returns when it
\* makes none.
newparam(val, init) ==
    IF val.type = "None" /\ init = "None"
    THEN [raised |-> "", new |-> TRUE, init |-> NaNFill, ret |-> PairWithNone]
    ELSE IF val.type = "ndarray"
    THEN [raised |-> "", new |-> TRUE, init |-> ReturnArray(val.content),
          ret |-> PairWithNone]
    ELSE IF val.type = "Real"
    THEN [raised |-> "", new |-> TRUE, init |-> FillWith(val.content),
          ret |-> PairWithNone]
    ELSE IF val.type = "TensorVariable"
    THEN [raised |-> "", new |-> FALSE, init |-> Unbound, ret |-> PairWithNone]
    ELSE [raised |-> "ValueError", new |-> FALSE, init |-> Unbound,
          ret |-> PairWithNone]

\* newweight/newbias that put the new parameter at the head of params.
NewEntry_prepends(list, val, init) ==
    /\ kind = "Layer"
    /\ Len(Ws) + Len(layer_bs) < MaxParams
    /\ \E r \in {newparam(val, init)} :
        IF r.raised # ""
        THEN /\ raised' = r.raised
             /\ ret' = None
             /\ UNCHANGED <<Ws, layer_bs, layer_params, inits, value>>
        ELSE \E p \in {IF r.new THEN SharedVar(Len(value) + 1) ELSE r.ret} :
             /\ raised' = ""
             /\ ret' = <<p>>
             /\ IF r.new
                THEN /\ layer_params' = <<p>> \o layer_params
                     /\ inits' = Append(inits, r.init)
                     /\ value' = Append(value, r.init.arg)
                ELSE UNCHANGED <<layer_params, inits, value>>
             /\ IF list = "Ws"
                THEN Ws' = Append(Ws, p) /\ UNCHANGED layer_bs
                ELSE layer_bs' = Append(layer_bs, p) /\ UNCHANGED Ws
    /\ UNCHANGED <<np_random, srng, constructed>>
    /\ UNCHANGED <<kind, post, momentum, gamma, beta, sum_means, sum_vars, pgamma,
                   pbeta, nmini, hooks, kw, pass, phase>>
    /\ UNCHANGED optvars

\* newweight (list = "Ws") and newbias (list = "bs"): p = _newparam(...),
\* append p to the list, return p.  A new shared variable takes the next id,
\* the content init(shape), a place at the end of params and its entry of
\* inits.  When _newparam raises, nothing is appended.
NewEntry(list, val, init) ==
    /\ kind = "Layer"
    /\ Len(Ws) + Len(layer_bs) < MaxParams
    /\ \E r \in {newparam(val, init)} :
        IF r.raised # ""
        THEN /\ raised' = r.raised
             /\ ret' = None
             /\ UNCHANGED <<Ws, layer_bs, layer_params, inits, value>>
        ELSE \E p \in {IF r.new THEN SharedVar(Len(value) + 1) ELSE r.ret} :
             /\ raised' = ""
             /\ ret' = <<p>>
             /\ IF r.new
                THEN /\ layer_params' = Append(layer_params, p)
                     /\ inits' = Append(inits, r.init)
                     /\ value' = Append(value, r.init.arg)
                ELSE UNCHANGED <<layer_params, inits, value>>
             /\ IF list = "Ws"
                THEN Ws' = Append(Ws, p) /\ UNCHANGED layer_bs
                ELSE layer_bs' = Append(layer_bs, p) /\ UNCHANGED Ws
    /\ UNCHANGED <<np_random, srng, constructed>>
    /\ UNCHANGED <<kind, post, momentum, gamma, beta, sum_means, sum_vars, pgamma,
                   pbeta, nmini, hooks, kw, pass, phase>>
    /\ UNCHANGED optvars

newweight(val, init) == NewEntry("Ws", val, init)

newbias(val, init) == NewEntry("bs", val, init)

\* The loop of Layer.reinit that passes over a parameter that is no key of
\* inits instead of raising.
RECURSIVE ReinitFrom_skipsUnbound(_, _, _)
ReinitFrom_skipsUnbound(i, g, vals) ==
    IF i > Len(layer_params)
    THEN [raised |-> "", value |-> vals, g |-> g]
    ELSE LET p == layer_params[i].id
         IN  IF inits[p] = Unbound
             THEN ReinitFrom_skipsUnbound(i + 1, g, vals)
             ELSE LET c == CallInit(inits[p], g)
                  IN  ReinitFrom_skipsUnbound(i + 1, c.g, [vals EXCEPT ![p] = c.val])

\* The loop of Layer.reinit from the i-th entry of params on: a parameter
\* that is no key of inits raises RuntimeError, the parameters before it
\* having been set; else the parameter is set to what its initializer
\* returns for rng.
RECURSIVE ReinitFrom(_, _, _)
ReinitFrom(i, g, vals) ==
    IF i > Len(layer_params)
    THEN [raised |-> "", value |-> vals, g |-> g]
    ELSE LET p == layer_params[i].id
         IN  IF inits[p] = Unbound
             THEN [raised |-> "RuntimeError", value |-> vals, g |-> g]
             ELSE LET c == CallInit(inits[p], g)
                  IN  ReinitFrom(i + 1, c.g, [vals EXCEPT ![p] = c.val])

\* Layer.reinit(rng) on a layer that makes its parameters with newweight and
\* newbias.  Drawing from the process-wide generator moves it on.
LayerReinit(rng, s) ==
    /\ kind = "Layer"
    /\ IF ~check_random_state(rng)
       THEN /\ raised' = "ValueError"
            /\ UNCHANGED <<value, np_random>>
       ELSE \E g \in Resolved(rng, s) :
            \E r \in {ReinitFrom(1, g, value)} :
                /\ rng = "None" => r.g.n <= MaxDraws
                /\ raised' = r.raised
                /\ value' = r.value
                /\ np_random' = IF rng = "None" THEN r.g ELSE np_random
    /\ UNCHANGED <<Ws, layer_bs, layer_params, inits, srng, ret, constructed>>
    /\ UNCHANGED <<kind, post, momentum, gamma, beta, sum_means, sum_vars, pgamma,
                   pbeta, nmini, hooks, kw, pass, phase>>
    /\ UNCHANGED optvars

\* The owner of the layer replaces the registered initializer of a parameter
\* by the one the following activation layer's weightinitializer returns.
BindInitializer ==
    /\ kind = "Layer"
    /\ \E p \in DOMAIN inits :
        /\ inits[p] # Unbound
        /\ inits' = [inits EXCEPT ![p] = RandomInit]
    /\ raised' = ""
    /\ UNCHANGED <<Ws, layer_bs, layer_params, value, np_random, srng, ret,
                   constructed>>
    /\ UNCHANGED <<kind, post, momentum, gamma, beta, sum_means, sum_vars, pgamma,
                   pbeta, nmini, hooks, kw, pass, phase>>
    /\ UNCHANGED optvars

\* A subclass puts a shared variable into self.params itself, without
\* _newparam: the parameter that is no key of inits, which reinit checks for.
AppendUnregistered ==
    /\ kind = "Layer"
    /\ Len(layer_params) < MaxParams
    /\ layer_params' = Append(layer_params, SharedVar(Len(value) + 1))
    /\ inits' = Append(inits, Unbound)
    /\ value' = Append(value, 0)
    /\ raised' = ""
    /\ UNCHANGED <<Ws, layer_bs, np_random, srng, ret, constructed>>
    /\ UNCHANGED <<kind, post, momentum, gamma, beta, sum_means, sum_vars, pgamma,
                   pbeta, nmini, hooks, kw, pass, phase>>
    /\ UNCHANGED optvars

\* The optimizer's update of the layer's entries of model.params.
UpdateRegistered ==
    /\ kind = "Layer"
    /\ value # <<>>
    /\ value' = Array([p \in DOMAIN value |-> TrainedGamma])
    /\ raised' = ""
    /\ UNCHANGED <<Ws, layer_bs, layer_params, inits, np_random, srng, ret,
                   constructed>>
    /\ UNCHANGED <<kind, post, momentum, gamma, beta, sum_means, sum_vars, pgamma,
                   pbeta, nmini, hooks, kw, pass, phase>>
    /\ UNCHANGED optvars

\* Other code of the process draws from the generator of numpy.random.
UseGlobalGenerator ==
    /\ np_random.n < MaxDraws
    /\ np_random' = Advance(np_random)
    /\ UNCHANGED <<Ws, layer_bs, layer_params, inits, value, srng, ret,
                   constructed>>
    /\ UNCHANGED layervars
    /\ UNCHANGED optvars

(***************************************************************************)
(* layers.py: Dropout.                                                     *)
(***************************************************************************)

\* Dropout(p): seed and srng are None.
DropoutInit ==
    /\ kind = "Dropout"
    /\ post = FALSE
    /\ momentum = None
    /\ hooks = ClassHooks
    /\ gamma = <<>> /\ beta = <<>>
    /\ sum_means = <<>> /\ sum_vars = <<>>
    /\ pgamma = <<>> /\ pbeta = <<>>
    /\ EmptyRegistry
    /\ nmini = None
    /\ kw = <<>>
    /\ raised = ""
    /\ pass = [index |-> 0, minis |-> 0, stats |-> <<>>, ok |-> FALSE, updates |-> 0]
    /\ phase = "idle"
    /\ Untouched
    /\ NoOptimizer

\* Dropout.reinit that draws the seed but makes no srng.
DropoutReinit_noSource(rng, s) ==
    /\ kind = "Dropout"
    /\ IF ~check_random_state(rng)
       THEN raised' = "ValueError" /\ UNCHANGED <<srng, np_random>>
       ELSE \E g \in Resolved(rng, s) :
                /\ rng = "None" => g.n < MaxDraws
                /\ raised' = ""
                /\ srng' = srng
                /\ np_random' = IF rng = "None" THEN Advance(g) ELSE np_random
    /\ UNCHANGED <<Ws, layer_bs, layer_params, inits, value, ret, constructed>>
    /\ UNCHANGED <<kind, post, momentum, gamma, beta, sum_means, sum_vars, pgamma,
                   pbeta, nmini, hooks, kw, pass, phase>>
    /\ UNCHANGED optvars

\* Dropout.reinit(rng): seed = rng.randint(2**31), srng = RandomStreams(seed).
DropoutReinit(rng, s) ==
    /\ kind = "Dropout"
    /\ IF ~check_random_state(rng)
       THEN raised' = "ValueError" /\ UNCHANGED <<srng, np_random>>
       ELSE \E g \in Resolved(rng, s) :
                /\ rng = "None" => g.n < MaxDraws
                /\ raised' = ""
                /\ srng' = <<Draw(g)>>
                /\ np_random' = IF rng = "None" THEN Advance(g) ELSE np_random
    /\ UNCHANGED <<Ws, layer_bs, layer_params, inits, value, ret, constructed>>
    /\ UNCHANGED <<kind, post, momentum, gamma, beta, sum_means, sum_vars, pgamma,
                   pbeta, nmini, hooks, kw, pass, phase>>
    /\ UNCHANGED optvars

\* Dropout.train_expr: RuntimeError while srng is None, else the product of
\* the input and a binomial mask drawn from srng.
DropoutTrainExpr ==
    /\ kind = "Dropout"
    /\ IF srng = None
       THEN raised' = "RuntimeError" /\ ret' = None
       ELSE raised' = "" /\ ret' = <<[tag |-> "binomial", id |-> srng[1]]>>
    /\ UNCHANGED <<Ws, layer_bs, layer_params, inits, value, np_random, srng,
                   constructed>>
    /\ UNCHANGED <<kind, post, momentum, gamma, beta, sum_means, sum_vars, pgamma,
                   pbeta, nmini, hooks, kw, pass, phase>>
    /\ UNCHANGED optvars

\* Dropout.pred_expr: x * p_keep, whatever srng is.
DropoutPredExpr ==
    /\ kind = "Dropout"
    /\ raised' = ""
    /\ UNCHANGED regvars
    /\ UNCHANGED <<kind, post, momentum, gamma, beta, sum_means, sum_vars, pgamma,
                   pbeta, nmini, hooks, kw, pass, phase>>
    /\ UNCHANGED optvars

\* A layer, and a caller that makes parameters, reinitializes and trains in
\* any order.
CallNewWeight == \E val \in ValArgs, init \in InitArgs : newweight(val, init)

CallNewBias == \E val \in ValArgs, init \in InitArgs : newbias(val, init)

CallLayerReinit == \E rng \in RngArgs, s \in Seeds : LayerReinit(rng, s)

CallBNReinit == kind = "BatchNormalization" /\ CallReinit

ParamsNext ==
    \/ CallNewWeight
    \/ CallNewBias
    \/ CallLayerReinit
    \/ CallBNReinit
    \/ AppendUnregistered
    \/ UpdateRegistered

SpecParams == LayerInit /\ [][ParamsNext]_vars

\* A layer that makes its parameters as FullyConnected does by default
\* (W = None, b = None), or a Dropout layer, and a caller that binds random
\* initializers, reinitializes, trains and uses the generators in any order.
SeedInit == (LayerInit /\ kind = "Layer") \/ DropoutInit

MakeDefaultWeight == newweight(AbsentVal, "None")

MakeDefaultBias == newbias(AbsentVal, "None")

CallDropoutReinit == \E rng \in RngArgs, s \in Seeds : DropoutReinit(rng, s)

SeedNext ==
    \/ MakeDefaultWeight
    \/ MakeDefaultBias
    \/ BindInitializer
    \/ CallLayerReinit
    \/ UpdateRegistered
    \/ UseGlobalGenerator
    \/ CallDropoutReinit
    \/ DropoutTrainExpr
    \/ DropoutPredExpr

SpecSeed == SeedInit /\ [][SeedNext]_vars

(***************************************************************************)
(* optim.py: the construction of a streaming minibatch optimizer.          *)
(***************************************************************************)

\* The models handed to the constructor: a layer of layers.py (which has
\* make_inputs, train_expr and params), and an object with the methods the
\* docstring of StreaMiniOptimizer.__init__ asks for (make_input, train_expr
\* and params).
Models == {"FullyConnected", "documented"}

Methods(model) ==
    IF model = "FullyConnected"
    THEN {"make_inputs", "train_expr"}
    ELSE {"make_input", "train_expr"}

\* The X and t arguments: absent, a name, or a symbolic variable.
PlaceholderArgs == {"None", "str", "variable"}

\* The arguments of one construction.
ConstructorArgs ==
    [cls : {"StreaMiniOptimizer", "StreaMiniSGD", "StreaMiniMomentum"},
     model : Models,
     X : PlaceholderArgs,
     t : PlaceholderArgs,
     batchsize : 1..MaxB]

\* StreaMiniOptimizer.__init__: the methods of the model and of the cost it
\* calls, in order, and what it raises.  The input comes from
\* model.make_input unless X is a variable; a model without that method
\* gives AttributeError before anything else is called.
BaseInit(a) ==
    LET needsX == a.X \in {"None", "str"}
        needsT == a.t \in {"None", "str"}
        callsX == IF needsX THEN <<"model.make_input">> ELSE <<>>
        callsT == IF needsT THEN <<"cost.make_target">> ELSE <<>>
    IN  IF needsX /\ "make_input" \notin Methods(a.model)
        THEN [raised |-> "AttributeError", calls |-> <<>>]
        ELSE [raised |-> "",
              calls |-> callsX \o callsT \o <<"model.train_expr", "cost.cost_expr">>]

\* The constructor of class a.cls: StreaMiniOptimizer.__init__, after which
\* StreaMiniSGD and StreaMiniMomentum take the gradient of cost_expr and
\* compile fn_train.  constructed records the arguments, the calls made and
\* whether an optimizer came out.
OptimizerInit(a) ==
    /\ \E r \in {BaseInit(a)} :
        /\ raised' = r.raised
        /\ constructed' =
            <<[args |-> a,
               calls |-> IF r.raised = "" /\ a.cls # "StreaMiniOptimizer"
                         THEN r.calls \o <<"T.grad", "theano.function">>
                         ELSE r.calls,
               done |-> r.raised = ""]>>
    /\ UNCHANGED <<Ws, layer_bs, layer_params, inits, value, np_random, srng, ret>>
    /\ UNCHANGED <<kind, post, momentum, gamma, beta, sum_means, sum_vars, pgamma,
                   pbeta, nmini, hooks, kw, pass, phase>>
    /\ UNCHANGED optvars

ConstructInit == NoOptimizer /\ NoLayer

Construct == \E a \in ConstructorArgs : OptimizerInit(a)

ConstructNext == Construct

SpecConstruct == ConstructInit /\ [][ConstructNext]_vars

(***************************************************************************)
(* Properties of fit_epoch and of the update rules.                        *)
(***************************************************************************)
Called == call # None

\* The samples lo+1..hi of an array, lo and hi counted from 0 as in Python.
Samples(x, lo, hi) == SubSeq(x, lo + 1, hi)

RECURSIVE ConcatSlices(_, _, _)
ConcatSlices(tr, k, col) ==
    IF k = 0 THEN <<>> ELSE ConcatSlices(tr, k - 1, col) \o tr[k].slice[col]

\* C1: fit_epoch over n samples with batch size b invokes the training step
\* ceil(n/b) times; invocation k (from 0) gets the samples k*b ..
\* min((k+1)*b, n)-1 of the data and the same indices of the targets, only
\* the last slice is shorter than b, and the slices concatenated in
\* invocation order are the input.
C1_SlicesPartitionInput ==
    Called =>
        LET n == Len(dataX)
            b == call[1].bs
        IN  /\ b >= 1
            /\ Len(trace) = (n + b - 1) \div b
            /\ \A k \in 1..Len(trace) :
                /\ trace[k].slice[1] = Samples(dataX, (k - 1) * b, Min(k * b, n))
                /\ trace[k].slice[2] = Samples(dataT, (k - 1) * b, Min(k * b, n))
                /\ trace[k].bt = trace[k].slice[2]
                /\ trace[k].bx = IF augment
                                 THEN augbatch_train(trace[k].slice[1], trace[k].slice[2])
                                 ELSE trace[k].slice[1]
                /\ Len(trace[k].slice[1]) >= 1
                /\ k < Len(trace) => Len(trace[k].slice[1]) = b
            /\ ConcatSlices(trace, Len(trace), 1) = dataX
            /\ ConcatSlices(trace, Len(trace), 2) = dataT

\* n = 10 and b = 3: four invocations on slices of 3, 3, 3 and 1 samples.
C1_Witness ==
    /\ Called
    /\ Len(dataX) = 10
    /\ call[1].bs = 3
    /\ Len(trace) = 4
    /\ \A k \in 1..3 : Len(trace[k].bx) = 3
    /\ Len(trace[4].bx) = 1

\* The parameter values and velocities each invocation of the latest call
\* starts from are the ones the invocation before it wrote, and the model
\* holds what the last invocation wrote.
StepsChain ==
    /\ \A k \in 1..(Len(trace) - 1) :
          trace[k + 1].p0 = trace[k].p1 /\ trace[k + 1].v0 = trace[k].v1
    /\ Len(trace) > 0 =>
          params = trace[Len(trace)].p1 /\ sh_v = trace[Len(trace)].v1

\* C7: a StreaMiniSGD step with learning rate lr replaces every parameter p
\* by p - lr*g, with g the gradient at the parameter values before the step,
\* and lr is the learning rate passed to the call the step belongs to.
C7_SGDStep ==
    (Called /\ cls = "StreaMiniSGD") =>
        /\ StepsChain
        /\ \A k \in 1..Len(trace) :
            LET old == trace[k].p0
                g == Grad(old, trace[k].bx, trace[k].bt)
            IN  /\ trace[k].lr = call[1].lr
                /\ Len(trace[k].p1) = Len(old)
                /\ \A i \in 1..Len(old) :
                      trace[k].p1[i] = old[i] - FMul(call[1].lr, g[i])

\* p = 1.0, cost p^2, lr = 0.1: the step writes 0.8.
C7_Witness ==
    /\ Called
    /\ cls = "StreaMiniSGD"
    /\ Len(trace) >= 1
    /\ trace[1].p0 = <<Fx(1)>>
    /\ trace[1].cost = Fx(1)
    /\ trace[1].lr = Frac(1, 10)
    /\ trace[1].p1 = <<Frac(8, 10)>>

\* The momentum the steps of the latest call use.
CallMomentum ==
    IF call[1].momentum = None THEN sh_momentum ELSE call[1].momentum[1]

\* C8: StreaMiniMomentum without Nesterov has one velocity per parameter,
\* zero at construction; every step sets v_new = momentum*v_old - lr*g and
\* p_new = p_old + v_new for the parameter of the same position, and the
\* velocity one step writes is the v_old of the next step, also from one
\* fit_epoch call to the next.
C8_ClassicalMomentum ==
    /\ [](cls = "StreaMiniMomentum" /\ ~nesterov =>
            /\ Len(sh_v) = Len(params)
            /\ ncalls = 0 => \A i \in 1..Len(sh_v) : sh_v[i] = 0
            /\ Called =>
                /\ StepsChain
                /\ \A k \in 1..Len(trace) :
                    LET g == Grad(trace[k].p0, trace[k].bx, trace[k].bt)
                    IN  \A i \in 1..Len(trace[k].p0) :
                          /\ trace[k].v1[i] = FMul(CallMomentum, trace[k].v0[i])
                                                - FMul(call[1].lr, g[i])
                          /\ trace[k].p1[i] = trace[k].p0[i] + trace[k].v1[i])
    /\ [][cls = "StreaMiniMomentum" /\ ~nesterov /\ Len(trace') > 0 =>
            /\ trace'[1].v0 = sh_v
            /\ trace'[1].p0 = params]_vars

\* v1 = -0.2 and p1 = 0.8 after a first call; the step of the second call
\* starts from them and writes v2 = 0.9*(-0.2) - 0.1*1.6 = -0.34.
C8_Witness ==
    /\ cls = "StreaMiniMomentum"
    /\ ~nesterov
    /\ ncalls = 2
    /\ Len(trace) = 1
    /\ trace[1].mom = Frac(9, 10)
    /\ trace[1].lr = Frac(1, 10)
    /\ trace[1].p0 = <<Frac(8, 10)>>
    /\ trace[1].v0 = <<-Frac(2, 10)>>
    /\ trace[1].v1 = <<-Frac(34, 100)>>

\* C9: StreaMiniMomentum with nesterov=True: every step sets v_new =
\* momentum*v_old - lr*g and p_new = p_old + momentum*v_new - lr*g with the
\* one gradient g at p_old; with momentum 0 the step is the SGD step.
C9_NesterovStep ==
    (Called /\ cls = "StreaMiniMomentum" /\ nesterov) =>
        /\ StepsChain
        /\ \A k \in 1..Len(trace) :
            LET g == Grad(trace[k].p0, trace[k].bx, trace[k].bt)
            IN  \A i \in 1..Len(trace[k].p0) :
                  /\ trace[k].v1[i] = FMul(CallMomentum, trace[k].v0[i])
                                        - FMul(call[1].lr, g[i])
                  /\ trace[k].p1[i] = trace[k].p0[i]
                                        + FMul(CallMomentum, trace[k].v1[i])
                                        - FMul(call[1].lr, g[i])
                  /\ CallMomentum = 0 =>
                        trace[k].p1[i] = trace[k].p0[i] - FMul(call[1].lr, g[i])

\* A Nesterov step with momentum 0.9 from a velocity that is not zero and a
\* gradient that is not zero.
C9_Witness ==
    /\ Called
    /\ cls = "StreaMiniMomentum"
    /\ nesterov
    /\ Len(trace) >= 2
    /\ trace[2].mom = Frac(9, 10)
    /\ trace[2].v0[1] # 0
    /\ Grad(trace[2].p0, trace[2].bx, trace[2].bt)[1] # 0
    /\ trace[2].p1[1] # trace[2].p0[1] + trace[2].v1[1]

\* C10 as stated: the result of fit_epoch is the aggregate of the collected
\* costs itself.
C10_Original ==
    Called => result = aggregate_batches(CollectedCosts(trace))

\* C10: fit_epoch returns the pair of cost.aggregate_batches applied to the
\* list of the costs the step invocations returned, one per minibatch in
\* invocation order, and None.
C10_ResultIsPair ==
    Called =>
        /\ Len(result) = 2
        /\ result[2] = None
        /\ \E costs \in {Array([k \in 1..Len(trace) |->
                            CostExpr(trace[k].p0, trace[k].bx, trace[k].bt)])} :
              /\ Len(costs) = Len(trace)
              /\ result[1] = aggregate_batches(costs)

\* An epoch of at least two minibatches whose costs differ.
C10_Witness ==
    /\ Called
    /\ Len(trace) >= 2
    /\ trace[1].cost # trace[2].cost
    /\ result[1] = aggregate_batches(<<trace[1].cost, trace[2].cost>>)

(***************************************************************************)
(* Properties of the hooks of BatchNormalization and of its train_expr.    *)
(***************************************************************************)
\* The counter, the accumulators, the cached values and the parameters.
LayerState == <<nmini, sum_means, sum_vars, pgamma, pbeta, gamma, beta>>

\* The hook names the claims give for each mode.
PreHook == IF post THEN "pre_finalize" ELSE "pre_epoch"

PreMinibatchHook == IF post THEN "finalize_pre_minibatch" ELSE "pre_minibatch"

PostHook == IF post THEN "post_finalize" ELSE "post_epoch"

HookTriple == {PreHook, PreMinibatchHook, PostHook}

\* The sum over the minibatches of a pass of the means (c = 1) or of the
\* variances (c = 2), per feature.
StatSum(stats, c) ==
    Array([i \in 1..NFeat |->
        FSum(Array([j \in 1..Len(stats) |-> stats[j][c][i]]))])

\* mean = (sum of m_i)/k and var = (sum of s_i)/(k-1) when k > 1, the sums
\* themselves when k <= 1.
PassMean(stats) ==
    LET k == Len(stats)
    IN  IF k > 1 THEN Array([i \in 1..NFeat |-> StatSum(stats, 1)[i] \div k])
        ELSE StatSum(stats, 1)

PassVar(stats) ==
    LET k == Len(stats)
    IN  IF k > 1 THEN Array([i \in 1..NFeat |-> StatSum(stats, 2)[i] \div (k - 1)])
        ELSE StatSum(stats, 2)

\* pgamma = g/sqrt(var + eps) and pbeta = b - pgamma*mean.
Derived(mean, var, g, b) ==
    LET pg == Array([i \in 1..NFeat |-> FDiv(g[i], FSqrt(var[i] + Eps))])
    IN  [pgamma |-> pg,
         pbeta |-> Array([i \in 1..NFeat |-> b[i] - FMul(pg[i], mean[i])])]

\* C2: with momentum disabled, the post hook that ends a pass of the pre
\* hook and k minibatches (each the pre-minibatch hook, then the update
\* adding its mean m_i and variance s_i) caches pgamma = gamma/sqrt(var+eps)
\* and pbeta = beta - pgamma*mean, where mean = (sum m_i)/k and
\* var = (sum s_i)/(k-1) when k > 1, and the plain sums when k <= 1.
C2_DeriveFromSums ==
    [][(EndPass /\ momentum = MomentumOff /\ pass.ok) =>
        LET d == Derived(PassMean(pass.stats), PassVar(pass.stats), gamma, beta)
        IN  /\ raised' = ""
            /\ pgamma' = d.pgamma
            /\ pbeta' = d.pbeta]_vars

\* A pass of three minibatches with different means and a variance sum that
\* is not zero has been ended over trained parameters, momentum disabled.
C2_Witness ==
    /\ momentum = MomentumOff
    /\ phase = "idle"
    /\ pass.ok
    /\ Len(pass.stats) = MaxMini
    /\ pass.stats[1] # pass.stats[2]
    /\ StatSum(pass.stats, 2)[1] > 0
    /\ gamma = Full(TrainedGamma)
    /\ pgamma = Derived(PassMean(pass.stats), PassVar(pass.stats), gamma, beta).pgamma
    /\ pbeta = Derived(PassMean(pass.stats), PassVar(pass.stats), gamma, beta).pbeta

\* C3: right after the active pre hook the counter is 0 and the accumulators
\* are zero when momentum is disabled and unchanged when it is enabled; every
\* active pre-minibatch hook adds 1 to the counter; so after a pre hook the
\* counter is always the number of pre-minibatch hook calls since the latest
\* pre hook.
C3_CounterCountsMinibatches ==
    /\ [](kind = "BatchNormalization" /\ pass.index > 0 => nmini = <<pass.minis>>)
    /\ [][(kind = "BatchNormalization" /\ Hook(PreHook)) =>
            /\ nmini' = <<0>>
            /\ IF momentum = MomentumOff
               THEN sum_means' = Full(0) /\ sum_vars' = Full(0)
               ELSE sum_means' = sum_means /\ sum_vars' = sum_vars]_vars
    /\ [][(kind = "BatchNormalization" /\ Hook(PreMinibatchHook) /\ nmini # None) =>
            nmini' = <<nmini[1] + 1>>]_vars

\* A second pre hook has zeroed accumulators that had been fed, momentum
\* disabled, and one pre-minibatch hook has followed it.
C3_Witness ==
    /\ kind = "BatchNormalization"
    /\ momentum = MomentumOff
    /\ pass.index = 2
    /\ pass.updates > 0
    /\ pass.stats = <<>>
    /\ sum_means = Full(0)
    /\ nmini = <<1>>

\* C4: a BatchNormalization layer binds exactly the hook triple of its mode,
\* and mode and binding never change; no step that changes the counter, the
\* accumulators, the cached values or the parameters is a call of one of
\* the five other hooks, and a hook call that changes the counter or the
\* cached values is a call of a hook of the triple; on a layer of another
\* class no step that changes the layer is a call of any of the eight hooks.
C4_HooksByMode ==
    /\ [](kind = "BatchNormalization" =>
            /\ hooks[PreHook] = "_pre"
            /\ hooks[PreMinibatchHook] = "_pre_mini"
            /\ hooks[PostHook] = "_post"
            /\ \A h \in HookNames \ HookTriple : hooks[h] = "pass")
    /\ [](kind = "Layer" => \A h \in HookNames : hooks[h] = "pass")
    /\ [][post' = post /\ hooks' = hooks]_vars
    /\ [][LayerState' # LayerState =>
            \A h \in HookNames :
                (kind = "Layer" \/ h \notin HookTriple) => ~Hook(h)]_vars
    /\ [][(<<nmini, pgamma, pbeta>>' # <<nmini, pgamma, pbeta>> /\ CallHook) =>
            \E h \in HookTriple : Hook(h)]_vars

\* A layer in post mode whose three hooks have run: the counter counts one
\* minibatch and the cached values are set.
C4_Witness ==
    /\ kind = "BatchNormalization"
    /\ post
    /\ nmini = <<1>>
    /\ sum_means # Full(0)
    /\ pgamma # Full(NaN)
    /\ pbeta # Full(NaN)

\* (1 - m) * running + m * batch, per feature.
Blend(m, running, batch) ==
    Array([i \in 1..NFeat |-> FMul(Fx(1) - m, running[i]) + FMul(m, batch[i])])

\* C5: with momentum m enabled every minibatch update sets running_mean =
\* (1-m)*running_mean + m*batch_mean and running_var likewise; the pre hook
\* leaves the accumulators as they are; the post hook derives pgamma and
\* pbeta from the accumulators as stored, whatever the counter.
C5_MomentumBlend ==
    [][momentum # MomentumOff =>
        /\ Minibatch =>
              LET fed == pass'.stats[Len(pass'.stats)]
              IN  /\ sum_means' = Blend(momentum[1], sum_means, fed[1])
                  /\ sum_vars' = Blend(momentum[1], sum_vars, fed[2])
        /\ BeginPass => sum_means' = sum_means /\ sum_vars' = sum_vars
        /\ EndPass =>
              /\ raised' = ""
              /\ pgamma' = Derived(sum_means, sum_vars, gamma, beta).pgamma
              /\ pbeta' = Derived(sum_means, sum_vars, gamma, beta).pbeta]_vars

\* With momentum 0.1 a second pass of two minibatches has been ended over
\* accumulators a first pass had fed.
C5_Witness ==
    /\ momentum = <<Frac(1, 10)>>
    /\ phase = "idle"
    /\ pass.index = 2
    /\ nmini = <<2>>
    /\ Len(pass.stats) = 2
    /\ pass.updates = 3
    /\ sum_vars[1] > 0
    /\ pgamma = Derived(sum_means, sum_vars, gamma, beta).pgamma
    /\ pbeta = Derived(sum_means, sum_vars, gamma, beta).pbeta

\* The key of the layer's mode.
ModeKey == IF post THEN "fin_updates" ELSE "fwd_updates"

\* The call succeeded and appended two rules, the first for the mean
\* accumulator and the second for the variance accumulator, to the list of
\* the mode's key, and nothing to any other list.
AppendsTwoRules ==
    LET old == kw[ModeKey]
        new == kw'[ModeKey]
    IN  /\ raised' = ""
        /\ DOMAIN kw' = DOMAIN kw
        /\ \A k \in DOMAIN kw \ {ModeKey} : kw'[k] = kw[k]
        /\ Len(new) = Len(old) + 2
        /\ SubSeq(new, 1, Len(old)) = old
        /\ new[Len(old) + 1].shared = "sum_means"
        /\ new[Len(old) + 2].shared = "sum_vars"

\* The call failed and appended nothing.
FailsAppendingNothing == raised' # "" /\ kw' = kw

\* C6 as stated: train_expr succeeds, appending its two rules to the list of
\* its mode's key, exactly when that key is the only one of fwd_updates and
\* fin_updates in the context; otherwise it fails and appends nothing.
C6_Original ==
    [][(TrainExpr /\ kind = "BatchNormalization") =>
        IF DOMAIN kw = {ModeKey} THEN AppendsTwoRules
        ELSE FailsAppendingNothing]_vars

\* C6, amended: train_expr succeeds, appending its two rules to the list of
\* its mode's key, exactly when that key is in the context, whether or not
\* the other key is there too; without it the call fails and appends nothing.
C6_KeyOfModeRequired ==
    [][(TrainExpr /\ kind = "BatchNormalization") =>
        IF ModeKey \in DOMAIN kw THEN AppendsTwoRules
        ELSE FailsAppendingNothing]_vars

\* A call with both keys in the context has appended the two rules after
\* another layer's update on the list of the mode's key.
C6_Witness ==
    /\ kind = "BatchNormalization"
    /\ raised = ""
    /\ DOMAIN kw = UpdateKeys
    /\ Len(kw[ModeKey]) = 3
    /\ kw[ModeKey][1] = OtherUpdate
    /\ kw[ModeKey][2].shared = "sum_means"
    /\ kw[ModeKey][3].shared = "sum_vars"
    /\ \A k \in UpdateKeys \ {ModeKey} : Len(kw[k]) <= 1

(***************************************************************************)
(* Properties of reinit and of the cached values of BatchNormalization.    *)
(***************************************************************************)
\* A reinit call that returns.
ReinitReturns == \E rng \in RngArgs : check_random_state(rng) /\ Reinit(rng)

\* C15: whatever the state, a reinit of a BatchNormalization layer that
\* returns leaves both accumulators all zero, gamma all ones and beta all
\* zeros.
C15_ReinitZeroesAccumulators ==
    [][(kind = "BatchNormalization" /\ ReinitReturns) =>
        /\ raised' = ""
        /\ sum_means' = Full(0)
        /\ sum_vars' = Full(0)
        /\ gamma' = Full(Fx(1))
        /\ beta' = Full(0)]_vars

\* With momentum enabled, accumulators that had been fed are zero again and
\* the parameters are back at their initial values after a post hook that
\* saw trained parameters.
C15_Witness ==
    /\ kind = "BatchNormalization"
    /\ momentum # MomentumOff
    /\ pass.updates > 0
    /\ sum_means = Full(0)
    /\ sum_vars = Full(0)
    /\ gamma = Full(Fx(1))
    /\ beta = Full(0)
    /\ pbeta # Full(NaN)
    /\ pbeta[1] > 0

\* The values a post hook derives in a state: the accumulators, divided by
\* the count and the count less one when momentum is disabled and the count
\* exceeds one, with the parameters of that state.
DerivedIn(mom, k, sm, sv, g, b) ==
    IF mom = MomentumOff /\ k[1] > 1
    THEN Derived(Array([i \in 1..NFeat |-> sm[i] \div k[1]]),
                 Array([i \in 1..NFeat |-> sv[i] \div (k[1] - 1)]), g, b)
    ELSE Derived(sm, sv, g, b)

\* C19: the post hook changes nothing but pgamma and pbeta; when it
\* succeeds, the values it has cached are the ones derived from the state
\* it leaves, so a second post hook right after it caches the same values.
C19_PostWritesOnlyCache ==
    [][(kind = "BatchNormalization" /\ Hook(PostHook)) =>
        /\ <<sum_means, sum_vars, nmini, gamma, beta>>'
                = <<sum_means, sum_vars, nmini, gamma, beta>>
        /\ raised' = "" =>
            /\ pgamma' = DerivedIn(momentum', nmini', sum_means', sum_vars',
                                   gamma', beta').pgamma
            /\ pbeta' = DerivedIn(momentum', nmini', sum_means', sum_vars',
                                  gamma', beta').pbeta]_vars

\* With momentum disabled a post hook has divided by a count of two and the
\* accumulators still hold the sums.
C19_Witness ==
    /\ kind = "BatchNormalization"
    /\ momentum = MomentumOff
    /\ nmini = <<2>>
    /\ pass.ok
    /\ Len(pass.stats) = 2
    /\ sum_means = StatSum(pass.stats, 1)
    /\ sum_means # Full(0)
    /\ pgamma = DerivedIn(momentum, nmini, sum_means, sum_vars, gamma, beta).pgamma
    /\ pbeta = DerivedIn(momentum, nmini, sum_means, sum_vars, gamma, beta).pbeta

\* C20: pgamma and pbeta are all NaN at construction, and a step changes
\* them, or what pred_expr computes from them, only if it is a call of the
\* active post hook: the other hooks, the accumulator updates, the training
\* of gamma and beta and reinit leave them as the last post hook cached them.
C20_OnlyPostWritesCache ==
    /\ (kind = "BatchNormalization" => pgamma = Full(NaN) /\ pbeta = Full(NaN))
    /\ [][(kind = "BatchNormalization"
           /\ (\/ <<pgamma, pbeta>>' # <<pgamma, pbeta>>
               \/ pred_expr(1)' # pred_expr(1))) =>
            Hook(PostHook)]_vars

\* The cached values of a post hook that saw fed accumulators are still in
\* place after a reinit has zeroed the accumulators, momentum enabled.
C20_Witness ==
    /\ kind = "BatchNormalization"
    /\ momentum # MomentumOff
    /\ sum_means = Full(0)
    /\ pgamma # Full(NaN)
    /\ pbeta # Full(NaN)
    /\ pbeta[1] < 0
    /\ pred_expr(1)[1] # NaN

(***************************************************************************)
(* Properties of the parameter registry.                                   *)
(***************************************************************************)

\* An external tensor held as it was given.
ExternalTensor == [tag |-> "tensor", id |-> 0]

\* The step makes one shared variable with the initializer init: it holds
\* what init returns, is returned, and is the new last entry of params with
\* init registered for it.
Registers(init) ==
    /\ raised' = ""
    /\ ret' = <<SharedVar(Len(value) + 1)>>
    /\ layer_params' = Append(layer_params, ret'[1])
    /\ inits' = Append(inits, init)
    /\ value' = Append(value, init.arg)
    /\ \/ Ws' = Append(Ws, ret'[1]) /\ layer_bs' = layer_bs
       \/ layer_bs' = Append(layer_bs, ret'[1]) /\ Ws' = Ws

\* The step puts the external tensor itself into Ws or bs and registers
\* nothing.
Adopts ==
    /\ raised' = ""
    /\ ret' = <<ExternalTensor>>
    /\ UNCHANGED <<layer_params, inits, value>>
    /\ \/ Ws' = Append(Ws, ExternalTensor) /\ layer_bs' = layer_bs
       \/ layer_bs' = Append(layer_bs, ExternalTensor) /\ Ws' = Ws

\* C11: newweight/newbias called with a value and no initializer resolve the
\* initial content by the kind of the value: an array registers "return this
\* array", a real scalar registers "fill with this constant", an external
\* tensor is adopted as-is with nothing registered, an absent value
\* registers the NaN fill, and any other value fails (ValueError) leaving
\* Ws, bs, params and inits unchanged.
C11_ResolvesByKind ==
    [][\A val \in ValArgs :
        (newweight(val, "None") \/ newbias(val, "None")) =>
            CASE val.type = "ndarray" -> Registers(ReturnArray(val.content))
              [] val.type = "Real" -> Registers(FillWith(val.content))
              [] val.type = "TensorVariable" -> Adopts
              [] val.type = "None" -> Registers(NaNFill)
              [] OTHER -> /\ raised' = "ValueError"
                          /\ UNCHANGED <<Ws, layer_bs, layer_params, inits, value>>]_vars

\* C18: newweight/newbias called with no value but with an initializer
\* function make and register the parameter with that initializer, which is
\* the one reinit calls for it afterwards.
C18_GivenInitializerRegistered ==
    [][(newweight(AbsentVal, "function") \/ newbias(AbsentVal, "function")) =>
        /\ raised' = ""
        /\ layer_params' = Append(layer_params, SharedVar(Len(value) + 1))
        /\ Len(inits') = Len(inits) + 1
        /\ inits'[Len(inits')] \notin {NaNFill, Unbound}]_vars

Entries(list) == {list[i] : i \in DOMAIN list}

\* The entries of a list of parameters stand in creation order.
InCreationOrder(list) ==
    \A i, j \in DOMAIN list : i < j => list[i].id < list[j].id

IsPrefix(s, t) == Len(s) <= Len(t) /\ SubSeq(t, 1, Len(s)) = s

\* Every shared variable of the layer has been made by _newparam.
OnlyMadeByNewparam == \A p \in DOMAIN inits : inits[p] # Unbound

\* C13 as stated: params holds exactly the entries of Ws and of bs, each
\* once, in creation order, and no step removes or reorders an entry.
C13_Original ==
    /\ [](OnlyMadeByNewparam =>
            /\ Entries(layer_params) = Entries(Ws) \union Entries(layer_bs)
            /\ Len(layer_params) = Len(Ws) + Len(layer_bs)
            /\ InCreationOrder(layer_params))
    /\ [][IsPrefix(layer_params, layer_params')]_vars

\* C13, amended: params holds exactly the shared variables _newparam made
\* (through newweight and newbias, and gamma and beta of BatchNormalization,
\* which are in neither Ws nor bs), each once, in creation order; every
\* shared variable of Ws and bs is in params, an entry of Ws or bs made from
\* an external tensor is not; no step removes or reorders an entry.
C13_ParamsInCreationOrder ==
    /\ [](OnlyMadeByNewparam =>
            /\ Entries(layer_params) = {SharedVar(p) : p \in DOMAIN inits}
            /\ Len(layer_params) = Len(inits)
            /\ InCreationOrder(layer_params)
            /\ \A e \in Entries(Ws) \union Entries(layer_bs) :
                    IF e.tag = "shared" THEN e \in Entries(layer_params)
                    ELSE e \notin Entries(layer_params))
    /\ [][IsPrefix(layer_params, layer_params')]_vars

\* A layer whose Ws holds the entry made from an external tensor and then a
\* weight made from an array, the weight alone being in params.
C13_Witness ==
    /\ kind = "Layer"
    /\ Ws = <<PairWithNone, SharedVar(1)>>
    /\ layer_bs = <<>>
    /\ layer_params = <<SharedVar(1)>>
    /\ inits = <<ReturnArray(Fx(3))>>
    /\ value = <<Fx(3)>>
    /\ raised = ""
    /\ ret = <<SharedVar(1)>>

\* Some parameter of params is no key of inits.
HasUnbound == \E i \in DOMAIN layer_params : inits[layer_params[i].id] = Unbound

\* C12: a reinit call whose rng resolves fails with RuntimeError exactly when
\* some parameter of params has no registered initializer; an entry of Ws or
\* bs made from an external tensor is no such parameter; every parameter
\* that newweight or newbias makes gets an initializer, so reinit of a layer
\* built by them alone, and of BatchNormalization, never fails that way.
C12_FailsIffUnbound ==
    [][/\ \A rng \in RngArgs, s \in Seeds :
            (check_random_state(rng) /\ LayerReinit(rng, s)) =>
                /\ raised' = "RuntimeError" <=> HasUnbound
                /\ UNCHANGED <<Ws, layer_bs>>
       /\ CallBNReinit => raised' # "RuntimeError"
       /\ (CallNewWeight \/ CallNewBias) =>
            /\ \A p \in DOMAIN inits' : p \notin DOMAIN inits => inits'[p] # Unbound
            /\ HasUnbound' = HasUnbound]_vars

\* reinit has failed on the second parameter, which a subclass put into
\* params without initializer, after setting the first to its array.
C12_Witness ==
    /\ kind = "Layer"
    /\ raised = "RuntimeError"
    /\ Ws = <<SharedVar(1)>>
    /\ layer_params = <<SharedVar(1), SharedVar(2)>>
    /\ inits = <<ReturnArray(Fx(3)), Unbound>>
    /\ value = <<Fx(3), TrainedGamma>>

(***************************************************************************)
(* Properties of reinit with a seed, and of Dropout.                       *)
(***************************************************************************)

\* What reinit(s) leaves in a second layer made with the same arguments,
\* whose parameters still hold old instead of the values of this one.
TwinAfter(s, old) ==
    ReinitFrom(1, RandomState(s), Array([p \in DOMAIN value |-> old])).value

\* C14: reinit with the integer seed s leaves in every parameter the value
\* it leaves in a twin layer, whatever the parameters held before and
\* whatever has been drawn from the process-wide generator, which it leaves
\* as it is.
C14_SeedDeterminesValues ==
    [][\A s \in Seeds :
        LayerReinit("int", s) =>
            /\ raised' = ""
            /\ \A old \in {NaN, 0, TrainedGamma} : value' = TwinAfter(s, old)
            /\ np_random' = np_random]_vars

\* Two parameters with random initializers hold the first two draws of
\* RandomState(1) while the process-wide generator has been drawn from.
C14_Witness ==
    /\ kind = "Layer"
    /\ inits = <<RandomInit, RandomInit>>
    /\ layer_params = <<SharedVar(1), SharedVar(2)>>
    /\ value = <<Draw(RandomState(1)), Draw(Advance(RandomState(1)))>>
    /\ np_random.n = 1
    /\ raised = ""

\* C16: a Dropout layer starts without srng; train_expr fails (RuntimeError)
\* exactly while srng is None; every reinit call whose rng resolves sets
\* srng from a seed drawn from the resolved generator; nothing but reinit
\* changes srng and nothing puts it back to None.
C16_SourceSetByReinit ==
    /\ kind = "Dropout" => srng = None
    /\ [][kind = "Dropout" =>
            /\ DropoutTrainExpr => (raised' = "RuntimeError" <=> srng = None)
            /\ \A rng \in RngArgs, s \in Seeds :
                    (check_random_state(rng) /\ DropoutReinit(rng, s)) =>
                        /\ raised' = ""
                        /\ \E g \in Resolved(rng, s) : srng' = <<Draw(g)>>
            /\ srng' # srng => CallDropoutReinit
            /\ srng # None => srng' # None]_vars

\* train_expr has returned its expression on a Dropout layer whose srng a
\* reinit has made.
C16_Witness ==
    /\ kind = "Dropout"
    /\ srng # None
    /\ raised = ""
    /\ ret = <<[tag |-> "binomial", id |-> srng[1]]>>

(***************************************************************************)
(* Properties of the construction of an optimizer.                         *)
(***************************************************************************)

Count(calls, name) == Cardinality({i \in DOMAIN calls : calls[i] = name})

\* C17: constructing an optimizer of any of the three classes without an
\* explicit X, for a model that has make_inputs, train_expr and params,
\* succeeds: the input is taken from the model's make_inputs, cost_expr is
\* built once and model.train_expr is called exactly once.
C17_ConstructsWithoutX ==
    [][\A a \in ConstructorArgs :
        (/\ OptimizerInit(a)
         /\ a.X = "None"
         /\ {"make_inputs", "train_expr"} \subseteq Methods(a.model)) =>
            /\ raised' = ""
            /\ constructed'[1].done
            /\ constructed'[1].calls[1] = "model.make_inputs"
            /\ Count(constructed'[1].calls, "model.train_expr") = 1
            /\ Count(constructed'[1].calls, "cost.cost_expr") = 1]_vars

(***************************************************************************)
(* Properties of the minibatch counter of BatchNormalization.              *)
(***************************************************************************)

\* C21: the counter nmini does not exist before the first active pre hook,
\* whatever else has been called (reinit included); while it does not exist
\* the active pre-minibatch hook fails, and so does the active post hook
\* with momentum disabled, both leaving the accumulators and pgamma/pbeta
\* as they were; with momentum enabled the post hook succeeds and writes
\* pgamma/pbeta.
C21_NoCounterBeforePre ==
    /\ [](kind = "BatchNormalization" /\ pass.index = 0 => nmini = None)
    /\ [][(kind = "BatchNormalization" /\ nmini = None) =>
            /\ Hook(PreMinibatchHook) =>
                /\ raised' = "AttributeError"
                /\ UNCHANGED <<nmini, sum_means, sum_vars, pgamma, pbeta>>
            /\ (momentum = MomentumOff /\ Hook(PostHook)) =>
                /\ raised' = "AttributeError"
                /\ UNCHANGED <<nmini, sum_means, sum_vars, pgamma, pbeta>>
            /\ (momentum # MomentumOff /\ Hook(PostHook)) =>
                /\ raised' = ""
                /\ \A i \in 1..NFeat : pgamma'[i] # NaN /\ pbeta'[i] # NaN
                /\ UNCHANGED <<nmini, sum_means, sum_vars>>]_vars

\* A hook has failed on a layer with momentum disabled that no pre hook has
\* been called on, after updates and a reinit; the accumulators and the
\* cached values are as reinit left them.
C21_Witness ==
    /\ kind = "BatchNormalization"
    /\ momentum = MomentumOff
    /\ pass.index = 0
    /\ pass.updates > 0
    /\ nmini = None
    /\ raised = "AttributeError"
    /\ sum_means = Full(0)
    /\ pgamma = Full(NaN)

====
